---- MODULE Spec2Model ----
(***************************************************************************)
(* Model of audiogram_plotter.py: the two request handlers of the         *)
(* AudiogramPlotter (load_elbicare, load_pychoacoustics) with the parsing, *)
(* conversion and PTA code they run.                                       *)
(*                                                                         *)
(* Levels (dB) are integers in tenths of a dB.  A mean is kept as an exact *)
(* fraction [num, den].  Python lists are sequences (index i of the code   *)
(* is index i+1 here); Python dicts are functions whose DOMAIN is the set  *)
(* of keys present.  The keys "freq_N" are written N.  An optional value   *)
(* (None or v) is the sequence << >> or <<v>>.                             *)
(***************************************************************************)
EXTENDS Integers, Sequences, FiniteSets, TLC

VARIABLES
    calib_on_disk, \* the calibration file: [exists, content]
    in_file,       \* the input file the operator selects in the file dialog
    request,       \* the handler that ran last ("none" before the first)
    calib_data,    \* calibration document as loaded (EmptyDict if not loaded)
    elbi_data,     \* amplitude-code document as loaded
    pyco_data,     \* audiogram_data returned by parse_pychoacoustics_txt
    opened,        \* files opened during the request, in order
    lookups,       \* calibration / RETSPL conversions completed in the request
    exception,     \* exception caught by the handler's except clause
    dialog,        \* QMessageBox.critical shown by the handler
    report         \* what plot_* displayed and printed

vars == <<calib_on_disk, in_file, request, calib_data, elbi_data, pyco_data,
          opened, lookups, exception, dialog, report>>

(***************************************************************************)
(* Bounds of the model.                                                    *)
(***************************************************************************)
\* length N of every band array of the calibration table
CalibLen == 2
\* in how many slots the two ears of an input may differ
MaxEarDiff == 1
\* blocks of a free-form turning-point text
MaxBlocks == 2
\* required keys a calibration document may lack
MaxMissing == 1

(***************************************************************************)
(* Python helpers.                                                         *)
(***************************************************************************)
RECURSIVE SumSeq(_)
SumSeq(s) == IF s = << >> THEN 0 ELSE Head(s) + SumSeq(Tail(s))

Rat(n, d) == [num |-> n, den |-> d]

\* sum(xs) / len(xs) if xs else 0
MeanOrZero(xs) == IF xs # << >> THEN Rat(SumSeq(xs), Len(xs)) ELSE Rat(0, 1)

Ok(v) == [err |-> "none", detail |-> "", val |-> v]
Raise(e, d) == [err |-> e, detail |-> d, val |-> 0]

\* xs[i] of a Python list: negative i counts from the end, anything
\* outside -len..len-1 raises IndexError
PyIndex(xs, i) ==
    IF 0 <= i /\ i < Len(xs) THEN Ok(xs[i + 1])
    ELSE IF -Len(xs) <= i /\ i < 0 THEN Ok(xs[Len(xs) + i + 1])
    ELSE Raise("IndexError", "list index out of range")

EmptyDict == << >>

(***************************************************************************)
(* __init__                                                                *)
(***************************************************************************)
RETSPL == (125 :> 450) @@ (250 :> 270) @@ (500 :> 135) @@ (1000 :> 75) @@
          (2000 :> 90) @@ (4000 :> 120) @@ (8000 :> 155)

calib_file == "calib.json"

(***************************************************************************)
(* plot_elbicare                                                           *)
(***************************************************************************)
\* elbi_freq_map with slot 3 bound to the 4000 Hz band and frequency
elbi_freq_map_shifted(idx) ==
    CASE idx = 0 -> [calib_key |-> "250Hz",  plot_freq |-> 250]
      [] idx = 1 -> [calib_key |-> "500Hz",  plot_freq |-> 500]
      [] idx = 2 -> [calib_key |-> "1000Hz", plot_freq |-> 1000]
      [] idx = 3 -> [calib_key |-> "4000Hz", plot_freq |-> 4000]
      [] idx = 4 -> [calib_key |-> "4000Hz", plot_freq |-> 4000]
      [] idx = 5 -> [calib_key |-> "8000Hz", plot_freq |-> 8000]

elbi_freq_map(idx) ==
    CASE idx = 0 -> [calib_key |-> "250Hz",  plot_freq |-> 250]
      [] idx = 1 -> [calib_key |-> "500Hz",  plot_freq |-> 500]
      [] idx = 2 -> [calib_key |-> "1000Hz", plot_freq |-> 1000]
      [] idx = 3 -> [calib_key |-> "2000Hz", plot_freq |-> 2000]
      [] idx = 4 -> [calib_key |-> "4000Hz", plot_freq |-> 4000]
      [] idx = 5 -> [calib_key |-> "8000Hz", plot_freq |-> 8000]

\* calib_data[calib_key][ampl] if ampl < len(calib_data[calib_key]) else 0
amplitude_to_db(calib, calib_key, ampl) ==
    IF calib_key \notin DOMAIN calib THEN Raise("KeyError", calib_key)
    ELSE IF ampl < Len(calib[calib_key]) THEN PyIndex(calib[calib_key], ampl)
    ELSE Ok(0)

ElbiAcc0 ==
    [err |-> "none", detail |-> "", freq_list |-> << >>,
     dbL |-> << >>, dbR |-> << >>, lookups |-> 0]

\* one pass of "for idx in range(6)"; an exception leaves the loop
elbi_slot(elbi, calib, idx, acc) ==
    IF idx \notin DOMAIN elbi.ch_0 THEN acc
    ELSE
      LET m  == elbi_freq_map(idx)
          fl == Append(acc.freq_list, m.plot_freq)
          L  == amplitude_to_db(calib, m.calib_key, elbi.ch_0[idx])
      IN  IF L.err # "none"
          THEN [acc EXCEPT !.err = L.err, !.detail = L.detail, !.freq_list = fl]
          ELSE
            LET a1 == [acc EXCEPT !.freq_list = fl,
                                  !.dbL = Append(acc.dbL, L.val),
                                  !.lookups = acc.lookups + 1]
            IN  IF idx \notin DOMAIN elbi.ch_1
                THEN [a1 EXCEPT !.err = "KeyError",
                                !.detail = "freq_" \o ToString(idx)]
                ELSE
                  LET R == amplitude_to_db(calib, m.calib_key, elbi.ch_1[idx])
                  IN  IF R.err # "none"
                      THEN [a1 EXCEPT !.err = R.err, !.detail = R.detail]
                      ELSE [a1 EXCEPT !.dbR = Append(a1.dbR, R.val),
                                      !.lookups = a1.lookups + 1]

RECURSIVE elbi_loop(_, _, _, _)
elbi_loop(elbi, calib, idx, acc) ==
    IF idx > 5 \/ acc.err # "none" THEN acc
    ELSE elbi_loop(elbi, calib, idx + 1, elbi_slot(elbi, calib, idx, acc))

\* lines 250-256
elbi_pta(dbL, dbR) ==
    IF Len(dbL) >= 5 /\ Len(dbR) >= 5
    THEN [L |-> Rat(dbL[2] + dbL[3] + dbL[4] + dbL[5], 4),
          R |-> Rat(dbR[2] + dbR[3] + dbR[4] + dbR[5], 4)]
    ELSE [L |-> MeanOrZero(dbL), R |-> MeanOrZero(dbR)]

\* the metadata keys the plot reads before mplt.show(), in the order read
plot_meta_keys == <<"audio_unit", "headphone", "author", "tanggal">>

NoReport ==
    [kind |-> "none", freq_list |-> << >>, dbL |-> << >>, dbR |-> << >>,
     pta_L |-> Rat(0, 1), pta_R |-> Rat(0, 1)]

\* the whole of plot_elbicare: what it raised, and what it showed
plot_elbicare(elbi, calib) ==
    LET acc  == elbi_loop(elbi, calib, 0, ElbiAcc0)
        pta  == elbi_pta(acc.dbL, acc.dbR)
        miss == {i \in 1..Len(plot_meta_keys) : plot_meta_keys[i] \notin DOMAIN calib}
    IN  IF acc.err # "none"
        THEN [err |-> acc.err, detail |-> acc.detail, lookups |-> acc.lookups,
              report |-> NoReport]
        ELSE IF miss # {}
        THEN [err |-> "KeyError",
              detail |-> plot_meta_keys[CHOOSE i \in miss : \A j \in miss : i <= j],
              lookups |-> acc.lookups, report |-> NoReport]
        ELSE [err |-> "none", detail |-> "", lookups |-> acc.lookups,
              report |-> [kind |-> "elbicare", freq_list |-> acc.freq_list,
                          dbL |-> acc.dbL, dbR |-> acc.dbR,
                          pta_L |-> pta.L, pta_R |-> pta.R]]

(***************************************************************************)
(* parse_pychoacoustics_txt                                                *)
(*                                                                         *)
(* A block is the three re.search results on it: ear, freq and tp are the  *)
(* captured groups, << >> when the pattern does not match.  The group of   *)
(* (Left|Right) is the word; the group of (\d+) is the numeral, written as *)
(* its number; the group of ([\d.]+) is written as the sequence of its     *)
(* digit runs between the dots: "35.5" is <<35, 5>>, "40" is <<40>>,       *)
(* "1.2.3" is <<1, 2, 3>>.  A run after the dot is one digit here.         *)
(***************************************************************************)
freq_hz_to_index == (125 :> 0) @@ (250 :> 1) @@ (500 :> 2) @@ (1000 :> 3) @@
                    (2000 :> 4) @@ (4000 :> 5) @@ (8000 :> 6)

\* float(text), in tenths: a numeral with at most one dot, else ValueError
py_float(text) ==
    IF Len(text) = 1 THEN Ok(10 * text[1])
    ELSE IF Len(text) = 2 THEN Ok(10 * text[1] + text[2])
    ELSE Raise("ValueError", "could not convert string to float")

EmptyAudiogram == [ch_0 |-> EmptyDict, ch_1 |-> EmptyDict]

\* d[k] = v on a dict
DictSet(d, k, v) == [x \in DOMAIN d \cup {k} |-> IF x = k THEN v ELSE d[x]]

\* the body of "for block in blocks" on one block
parse_block(block, acc) ==
    IF block.ear = << >> THEN acc
    ELSE IF block.freq = << >> THEN acc
    ELSE IF block.tp = << >> THEN acc
    ELSE
      LET channel   == IF block.ear[1] = "Left" THEN "ch_0" ELSE "ch_1"
          frequency == block.freq[1]
          dbspl     == py_float(block.tp[1])
      IN  IF dbspl.err # "none"
          THEN [acc EXCEPT !.err = dbspl.err, !.detail = dbspl.detail]
          ELSE IF frequency \in DOMAIN freq_hz_to_index
          THEN [acc EXCEPT !.data[channel] =
                    DictSet(acc.data[channel], freq_hz_to_index[frequency],
                            [freq_hz |-> frequency, dbSPL |-> dbspl.val])]
          ELSE acc

RECURSIVE parse_blocks(_, _)
parse_blocks(blocks, acc) ==
    IF blocks = << >> \/ acc.err # "none" THEN acc
    ELSE parse_blocks(Tail(blocks), parse_block(Head(blocks), acc))

parse_pychoacoustics_txt(blocks) ==
    parse_blocks(blocks, [err |-> "none", detail |-> "", data |-> EmptyAudiogram])

(***************************************************************************)
(* plot_pychoacoustics                                                     *)
(***************************************************************************)
freq_list == <<125, 250, 500, 1000, 2000, 4000, 8000>>

\* spl_to_hl with the RETSPL offset added instead of subtracted
spl_to_hl_added(dbspl, freq_hz) ==
    IF freq_hz \notin DOMAIN RETSPL THEN Raise("KeyError", "RETSPL")
    ELSE Ok(dbspl + RETSPL[freq_hz])

\* dbspl - self.RETSPL[freq_hz]
spl_to_hl(dbspl, freq_hz) ==
    IF freq_hz \notin DOMAIN RETSPL THEN Raise("KeyError", "RETSPL")
    ELSE Ok(dbspl - RETSPL[freq_hz])

PycoAcc0 ==
    [err |-> "none", detail |-> "", dbhl_left |-> << >>, dbhl_right |-> << >>,
     lookups |-> 0]

\* one pass of "for i in range(7)"
pyco_slot(pyco, i, acc) ==
    IF i \notin DOMAIN pyco.ch_0
    THEN [acc EXCEPT !.dbhl_left = Append(acc.dbhl_left, << >>),
                     !.dbhl_right = Append(acc.dbhl_right, << >>)]
    ELSE
      LET freq_hz == pyco.ch_0[i].freq_hz
          L == spl_to_hl(pyco.ch_0[i].dbSPL, freq_hz)
      IN  IF L.err # "none"
          THEN [acc EXCEPT !.err = L.err, !.detail = L.detail]
          ELSE
            LET a1 == [acc EXCEPT !.dbhl_left = Append(acc.dbhl_left, <<L.val>>),
                                  !.lookups = acc.lookups + 1]
            IN  IF i \notin DOMAIN pyco.ch_1
                THEN [a1 EXCEPT !.err = "KeyError",
                                !.detail = "freq_" \o ToString(i)]
                ELSE
                  LET R == spl_to_hl(pyco.ch_1[i].dbSPL, freq_hz)
                  IN  IF R.err # "none"
                      THEN [a1 EXCEPT !.err = R.err, !.detail = R.detail]
                      ELSE [a1 EXCEPT !.dbhl_right = Append(a1.dbhl_right, <<R.val>>),
                                      !.lookups = a1.lookups + 1]

RECURSIVE pyco_loop(_, _, _)
pyco_loop(pyco, i, acc) ==
    IF i > 6 \/ acc.err # "none" THEN acc
    ELSE pyco_loop(pyco, i + 1, pyco_slot(pyco, i, acc))

\* [d for d in ds if d is not None]
RECURSIVE not_none(_)
not_none(ds) ==
    IF ds = << >> THEN << >>
    ELSE IF Head(ds) = << >> THEN not_none(Tail(ds))
    ELSE <<Head(ds)[1]>> \o not_none(Tail(ds))

\* valid_freq without the "if d is not None" filter
valid_freq_unfiltered(fs, ds) == fs

\* [f for f, d in zip(fs, ds) if d is not None]
RECURSIVE valid_freq(_, _)
valid_freq(fs, ds) ==
    IF fs = << >> \/ ds = << >> THEN << >>
    ELSE IF Head(ds) = << >> THEN valid_freq(Tail(fs), Tail(ds))
    ELSE <<Head(fs)>> \o valid_freq(Tail(fs), Tail(ds))

\* lines 350-356
pyco_pta(valid_dbhl_L, valid_dbhl_R) ==
    IF Len(valid_dbhl_L) >= 6
    THEN [L |-> Rat(valid_dbhl_L[3] + valid_dbhl_L[4] + valid_dbhl_L[5]
                    + valid_dbhl_L[6], 4),
          R |-> Rat(valid_dbhl_R[3] + valid_dbhl_R[4] + valid_dbhl_R[5]
                    + valid_dbhl_R[6], 4)]
    ELSE [L |-> MeanOrZero(valid_dbhl_L), R |-> MeanOrZero(valid_dbhl_R)]

\* the whole of plot_pychoacoustics: what it raised, and what it showed
plot_pychoacoustics(pyco) ==
    LET acc == pyco_loop(pyco, 0, PycoAcc0)
        vf  == valid_freq(freq_list, acc.dbhl_left)
        vL  == not_none(acc.dbhl_left)
        vR  == not_none(acc.dbhl_right)
        pta == pyco_pta(vL, vR)
    IN  IF acc.err # "none"
        THEN [err |-> acc.err, detail |-> acc.detail, lookups |-> acc.lookups,
              report |-> NoReport]
        ELSE [err |-> "none", detail |-> "", lookups |-> acc.lookups,
              report |-> [kind |-> "pychoacoustics", freq_list |-> vf,
                          dbL |-> vL, dbR |-> vR,
                          pta_L |-> pta.L, pta_R |-> pta.R]]

(***************************************************************************)
(* load_json, load_elbicare, load_pychoacoustics                           *)
(***************************************************************************)
\* json.load of a file: a turning-point text is no JSON document
load_json(file) ==
    IF file.kind = "json" THEN Ok(file.audiogram)
    ELSE Raise("JSONDecodeError", "Expecting value")

\* content.split(delimiter) of a file, as the re.search results per block:
\* a JSON document is one block that matches none of the three patterns
NoMatchBlock == [ear |-> << >>, freq |-> << >>, tp |-> << >>]

split_blocks(file) == IF file.kind = "text" THEN file.blocks ELSE <<NoMatchBlock>>

NoDialog == [title |-> "none", text |-> << >>]

Idle ==
    [request |-> "none", calib_data |-> EmptyDict, elbi_data |-> EmptyAudiogram,
     pyco_data |-> EmptyAudiogram, opened |-> << >>, lookups |-> 0,
     exception |-> "none", dialog |-> NoDialog, report |-> NoReport]

CalibNotFoundDialog ==
    [title |-> "Calibration Error",
     text  |-> <<"Calibration file not found:", calib_file,
                 "Please ensure calib_example.json is in the same folder.">>]

ElbiErrorDialog(detail) ==
    [title |-> "Error", text |-> <<"Failed to load or plot Elbicare data:", detail>>]

PycoErrorDialog(detail) ==
    [title |-> "Error",
     text |-> <<"Failed to load or plot Pychoacoustics data:", detail>>]

\* the body of "if fname:" with the existence check made after the input
\* document has been loaded
elbicare_request_check_late(calib, file) ==
    LET e == load_json(file)
    IN  IF e.err # "none"
        THEN [Idle EXCEPT !.request = "elbicare", !.opened = <<file.name>>,
                          !.exception = e.err, !.dialog = ElbiErrorDialog(e.detail)]
        ELSE IF ~calib.exists
        THEN [Idle EXCEPT !.request = "elbicare", !.opened = <<file.name>>,
                          !.elbi_data = e.val, !.dialog = CalibNotFoundDialog]
        ELSE
          LET p == plot_elbicare(e.val, calib.content)
          IN  [Idle EXCEPT !.request = "elbicare",
                           !.opened = <<file.name, calib_file>>,
                           !.calib_data = calib.content, !.elbi_data = e.val,
                           !.lookups = p.lookups, !.exception = p.err,
                           !.dialog = IF p.err = "none" THEN NoDialog
                                      ELSE ElbiErrorDialog(p.detail),
                           !.report = p.report]

\* the body of "if fname:" in load_elbicare (lines 99-125)
elbicare_request(calib, file) ==
    IF ~calib.exists
    THEN [Idle EXCEPT !.request = "elbicare", !.dialog = CalibNotFoundDialog]
    ELSE
      LET e == load_json(file)
      IN  IF e.err # "none"
          THEN [Idle EXCEPT !.request = "elbicare",
                            !.opened = <<calib_file, file.name>>,
                            !.calib_data = calib.content,
                            !.exception = e.err,
                            !.dialog = ElbiErrorDialog(e.detail)]
          ELSE
            LET p == plot_elbicare(e.val, calib.content)
            IN  [Idle EXCEPT !.request = "elbicare",
                             !.opened = <<calib_file, file.name>>,
                             !.calib_data = calib.content, !.elbi_data = e.val,
                             !.lookups = p.lookups, !.exception = p.err,
                             !.dialog = IF p.err = "none" THEN NoDialog
                                        ELSE ElbiErrorDialog(p.detail),
                             !.report = p.report]

\* the body of "if fname:" in load_pychoacoustics (lines 139-152)
pychoacoustics_request(file) ==
    LET d == parse_pychoacoustics_txt(split_blocks(file))
    IN  IF d.err # "none"
        THEN [Idle EXCEPT !.request = "pychoacoustics", !.opened = <<file.name>>,
                          !.exception = d.err, !.dialog = PycoErrorDialog(d.detail)]
        ELSE
          LET p == plot_pychoacoustics(d.data)
          IN  [Idle EXCEPT !.request = "pychoacoustics", !.opened = <<file.name>>,
                           !.pyco_data = d.data,
                           !.lookups = p.lookups, !.exception = p.err,
                           !.dialog = IF p.err = "none" THEN NoDialog
                                      ELSE PycoErrorDialog(p.detail),
                           !.report = p.report]

Outcome(r) ==
    /\ request' = r.request
    /\ calib_data' = r.calib_data
    /\ elbi_data' = r.elbi_data
    /\ pyco_data' = r.pyco_data
    /\ opened' = r.opened
    /\ lookups' = r.lookups
    /\ exception' = r.exception
    /\ dialog' = r.dialog
    /\ report' = r.report
    /\ UNCHANGED <<calib_on_disk, in_file>>

\* fname is "" when the operator cancels the file dialog
load_elbicare ==
    \E fname \in {"", in_file.name} :
        IF fname = "" THEN UNCHANGED vars
        ELSE Outcome(elbicare_request(calib_on_disk, in_file))

load_pychoacoustics ==
    \E fname \in {"", in_file.name} :
        IF fname = "" THEN UNCHANGED vars
        ELSE Outcome(pychoacoustics_request(in_file))

(***************************************************************************)
(* The files on disk.                                                      *)
(***************************************************************************)
Slots == 0..5

BandKeys == <<"250Hz", "500Hz", "1000Hz", "2000Hz", "4000Hz", "8000Hz">>

\* band array i of the calibration table, indexed by amplitude code
BandTable(i) == [c \in 1..CalibLen |-> 100 * i + 5 * (c - 1)]

FullCalib ==
    ("audio_unit" :> "dBA") @@ ("headphone" :> "HD") @@
    ("author" :> "lab") @@ ("tanggal" :> "2024") @@
    [k \in {BandKeys[i] : i \in 1..6} |->
        BandTable(CHOOSE i \in 1..6 : BandKeys[i] = k)]

CalibWithout(missing) == [k \in DOMAIN FullCalib \ missing |-> FullCalib[k]]

\* amplitude codes of the inputs: below -N, -N..-1, 0..N-1, and N
AmplCodes == (-(CalibLen + 1))..CalibLen

default_ampl(i) == i % CalibLen

\* both ears carry default_ampl but for one entry (ear oe, slot os, code oc)
ElbiDoc(sL, sR, oe, os, oc) ==
    [ch_0 |-> [i \in sL |-> IF oe = 0 /\ os = i THEN oc ELSE default_ampl(i)],
     ch_1 |-> [i \in sR |-> IF oe = 1 /\ os = i THEN oc ELSE default_ampl(i)]]

JsonFile(doc) == [name |-> "HT_1.TXT", kind |-> "json", audiogram |-> doc,
                  blocks |-> << >>]

TextFile(bs) == [name |-> "pyco.txt", kind |-> "text",
                 audiogram |-> EmptyAudiogram, blocks |-> bs]

Near(S, U) == {T \in SUBSET U : Cardinality((S \ T) \cup (T \ S)) <= MaxEarDiff}

IsElbiFile(f) ==
    \E sL \in SUBSET Slots : \E sR \in Near(sL, Slots) :
        \E oe \in 0..1, os \in Slots, oc \in AmplCodes :
            f = JsonFile(ElbiDoc(sL, sR, oe, os, oc))

\* documents whose ears carry the same slots, all with in-range codes
IsPlainElbiFile(f) == \E s \in SUBSET Slots : f = JsonFile(ElbiDoc(s, s, 0, 0, 0))

\* the text of a dB SPL value of a well-formed file
spl_text(ear, i) == IF ear = "Left" THEN <<20 + 3 * i * i>> ELSE <<21 + 2 * i * i, 5>>

MeasBlock(ear, f, text) == [ear |-> <<ear>>, freq |-> <<f>>, tp |-> <<text>>]

\* a well-formed file: one block per ear and canonical frequency measured
RECURSIVE RegularBlocks(_, _, _)
RegularBlocks(FL, FR, i) ==
    IF i > 6 THEN << >>
    ELSE (IF i \in FL THEN <<MeasBlock("Left", freq_list[i + 1], spl_text("Left", i))>>
          ELSE << >>)
         \o (IF i \in FR THEN <<MeasBlock("Right", freq_list[i + 1], spl_text("Right", i))>>
             ELSE << >>)
         \o RegularBlocks(FL, FR, i + 1)

IsRegularText(f) ==
    \E FL \in SUBSET (0..6) : \E FR \in Near(FL, 0..6) :
        f = TextFile(RegularBlocks(FL, FR, 0))

\* what the three patterns may capture in a block of a free-form text
FreeBlocks ==
    [ear  : {<< >>, <<"Left">>, <<"Right">>},
     freq : {<< >>, <<1000>>, <<300>>},
     tp   : {<< >>, <<(<<35, 0>>)>>, <<(<<20, 5>>)>>, <<(<<1, 2, 3>>)>>}]

IsFreeText(f) ==
    \E n \in 0..MaxBlocks : \E bs \in [1..n -> FreeBlocks] : f = TextFile(bs)

(***************************************************************************)
(* Specifications.                                                         *)
(***************************************************************************)
InitOutcome ==
    /\ request = "none"
    /\ calib_data = EmptyDict
    /\ elbi_data = EmptyAudiogram
    /\ pyco_data = EmptyAudiogram
    /\ opened = << >>
    /\ lookups = 0
    /\ exception = "none"
    /\ dialog = NoDialog
    /\ report = NoReport

\* an installation with its calibration file in place
Init ==
    /\ calib_on_disk = [exists |-> TRUE, content |-> FullCalib]
    /\ \/ IsElbiFile(in_file)
       \/ IsRegularText(in_file)
       \/ IsFreeText(in_file)
    /\ InitOutcome

Next == load_elbicare \/ load_pychoacoustics

Spec == Init /\ [][Next]_vars

\* any calibration file: absent, or lacking up to MaxMissing required keys
InitCalib ==
    /\ calib_on_disk \in
         [exists : BOOLEAN,
          content : {CalibWithout(m) : m \in {x \in SUBSET DOMAIN FullCalib :
                                                Cardinality(x) <= MaxMissing}}]
    /\ IsPlainElbiFile(in_file)
    /\ InitOutcome

SpecCalib == InitCalib /\ [][Next]_vars

(***************************************************************************)
(* Properties.                                                             *)
(***************************************************************************)
Range(xs) == {xs[p] : p \in 1..Len(xs)}

PosOf(xs, x) == CHOOSE p \in 1..Len(xs) : xs[p] = x

RatEq(a, b) == a.num * b.den = b.num * a.den

PTAFreqs == {500, 1000, 2000, 4000}

CanonicalGrid == <<125, 250, 500, 1000, 2000, 4000, 8000>>

Reported == report.kind # "none"

\* the mean of the thresholds of series db at 500, 1000, 2000 and 4000 Hz
FourFrequencyMean(fl, db) ==
    Rat(db[PosOf(fl, 500)] + db[PosOf(fl, 1000)] + db[PosOf(fl, 2000)]
        + db[PosOf(fl, 4000)], 4)

\* the mean of every threshold of series db, 0 when there is none
MeanOfAll(db) == IF Len(db) = 0 THEN Rat(0, 1) ELSE Rat(SumSeq(db), Len(db))

\* C1: in both paths, whenever the reported series holds thresholds at all of
\* 500, 1000, 2000 and 4000 Hz, each ear's PTA is the mean of exactly those
\* four thresholds, whatever other frequencies are present.
C1_PTAIsFourFrequencyMean ==
    (Reported /\ PTAFreqs \subseteq Range(report.freq_list)) =>
        /\ RatEq(report.pta_L, FourFrequencyMean(report.freq_list, report.dbL))
        /\ RatEq(report.pta_R, FourFrequencyMean(report.freq_list, report.dbR))

\* C2: in both paths, whenever the reported series lacks one of 500, 1000,
\* 2000, 4000 Hz, each ear's PTA is the mean of all thresholds of the series
\* (0 for an empty series).
C2_PTAFallbackIsMeanOfAll ==
    (Reported /\ ~(PTAFreqs \subseteq Range(report.freq_list))) =>
        /\ RatEq(report.pta_L, MeanOfAll(report.dbL))
        /\ RatEq(report.pta_R, MeanOfAll(report.dbR))

\* the canonical frequency and the calibration band of slot freq_N
SlotFreq(N) == CanonicalGrid[N + 2]

SlotBand(N) == <<"250Hz", "500Hz", "1000Hz", "2000Hz", "4000Hz", "8000Hz">>[N + 1]

InRange(c, table) == 0 <= c /\ c < Len(table)

\* an amplitude-code request that loaded its input document
ElbiLoaded == request = "elbicare" /\ opened = <<calib_file, in_file.name>>
              /\ in_file.kind = "json"

EarsAgree(doc) == DOMAIN doc.ch_0 = DOMAIN doc.ch_1

AllInRange(doc, calib) ==
    /\ \A N \in DOMAIN doc.ch_0 : InRange(doc.ch_0[N], calib[SlotBand(N)])
    /\ \A N \in DOMAIN doc.ch_1 : InRange(doc.ch_1[N], calib[SlotBand(N)])

\* C3: in plot_elbicare a code that is no valid index 0..N-1 of its band's
\* array (code >= N, or negative) converts to 0 and never raises.  Stated on
\* documents whose two ears carry the same slots.
C3_OutOfRangeCodeGivesZero ==
    (ElbiLoaded /\ EarsAgree(elbi_data)) =>
        /\ exception = "none"
        /\ report.kind = "elbicare"
        /\ \A N \in DOMAIN elbi_data.ch_0 :
             LET p == PosOf(report.freq_list, SlotFreq(N))
                 t == calib_data[SlotBand(N)]
             IN  /\ ~InRange(elbi_data.ch_0[N], t) => report.dbL[p] = 0
                 /\ ~InRange(elbi_data.ch_1[N], t) => report.dbR[p] = 0

\* C4: in every amplitude-code report, each slot freq_N of the document is
\* reported at canonical frequency grid(N), and an ear's in-range code c is
\* reported as calib[band(N)][c], whichever other slots are present.
C4_SlotMapsToBandAndTableValue ==
    report.kind = "elbicare" =>
        \A N \in DOMAIN elbi_data.ch_0 :
            /\ SlotFreq(N) \in Range(report.freq_list)
            /\ LET p  == PosOf(report.freq_list, SlotFreq(N))
                   t  == calib_data[SlotBand(N)]
                   cL == elbi_data.ch_0[N]
                   cR == elbi_data.ch_1[N]
               IN  /\ InRange(cL, t) => report.dbL[p] = t[cL + 1]
                   /\ InRange(cR, t) => report.dbR[p] = t[cR + 1]

\* C4 witness: a report of slots freq_2 and freq_3 alone, freq_3 at 2000 Hz
\* with the table value of its code in both ears
C4_Witness ==
    /\ report.kind = "elbicare"
    /\ DOMAIN elbi_data.ch_0 = {2, 3}
    /\ elbi_data.ch_0[3] = 1 /\ elbi_data.ch_1[3] = 0
    /\ report.freq_list = <<1000, 2000>>
    /\ report.dbL[2] = calib_data["2000Hz"][2]
    /\ report.dbR[2] = calib_data["2000Hz"][1]

\* C5: a slot or frequency present for one ear only is "not tested" for the
\* other: the request still ends in a report with no error, and the
\* frequency of the measurement that exists is in the reported series.
C5_OneEarOnlyStillReported ==
    /\ (ElbiLoaded /\ ~EarsAgree(elbi_data) /\ AllInRange(elbi_data, calib_data)) =>
          /\ exception = "none"
          /\ report.kind = "elbicare"
          /\ \A N \in DOMAIN elbi_data.ch_0 \cup DOMAIN elbi_data.ch_1 :
                SlotFreq(N) \in Range(report.freq_list)
    /\ (request = "pychoacoustics" /\ ~EarsAgree(pyco_data)) =>
          /\ exception = "none"
          /\ report.kind = "pychoacoustics"
          /\ \A i \in DOMAIN pyco_data.ch_0 \cup DOMAIN pyco_data.ch_1 :
                CanonicalGrid[i + 1] \in Range(report.freq_list)

Channel(ear) == IF ear = "Left" THEN "ch_0" ELSE "ch_1"

GridIndex(f) == PosOf(CanonicalGrid, f) - 1

\* a block in which all three patterns match, for this ear and frequency
CompleteBlock(b, ear, f) == b.ear = <<ear>> /\ b.freq = <<f>> /\ b.tp # << >>

\* C6: for any sequence of blocks the parser raises nothing and records a
\* measurement for (ear, f) exactly when some block matches all three
\* patterns with that ear and a canonical f; Left is ch_0, Right is ch_1.
C6_ParserRecordsExactlyCompleteBlocks ==
    (request = "pychoacoustics" /\ in_file.kind = "text") =>
        /\ exception # "ValueError"
        /\ \A ear \in {"Left", "Right"} : \A f \in Range(CanonicalGrid) :
              (GridIndex(f) \in DOMAIN pyco_data[Channel(ear)])
                <=> (\E k \in 1..Len(in_file.blocks) :
                        CompleteBlock(in_file.blocks[k], ear, f))
        /\ \A ear \in {"Left", "Right"} :
              DOMAIN pyco_data[Channel(ear)] \subseteq 0..6

\* C7: every threshold of a turning-point report at frequency f is that
\* ear's parsed dB SPL for f minus RETSPL[f]; every entry the parser stores
\* under freq_i carries the i-th canonical frequency, and the RETSPL lookup
\* never misses.
C7_ThresholdIsSplMinusRetspl ==
    /\ report.kind = "pychoacoustics" =>
          \A p \in 1..Len(report.freq_list) :
              LET f == report.freq_list[p]
                  i == GridIndex(f)
              IN  /\ report.dbL[p] + RETSPL[f] = pyco_data.ch_0[i].dbSPL
                  /\ report.dbR[p] + RETSPL[f] = pyco_data.ch_1[i].dbSPL
    /\ request = "pychoacoustics" =>
          /\ \A ch \in {"ch_0", "ch_1"} : \A i \in DOMAIN pyco_data[ch] :
                pyco_data[ch][i].freq_hz = CanonicalGrid[i + 1]
          /\ "RETSPL" \notin Range(dialog.text)

\* C7 witness: 35.0 dB SPL (left) and 20.5 dB SPL (right) at 1000 Hz are
\* reported as 27.5 and 13.0 dB HL
C7_Witness ==
    /\ report.kind = "pychoacoustics"
    /\ report.freq_list = <<1000>>
    /\ pyco_data.ch_0[3].dbSPL = 350 /\ report.dbL = <<275>>
    /\ pyco_data.ch_1[3].dbSPL = 205 /\ report.dbR = <<130>>

StrictlyAscending(xs) == \A p \in 1..Len(xs) : \A q \in 1..Len(xs) : p < q => xs[p] < xs[q]

\* the frequency has a measurement of both ears in the request's input
HasData(f) ==
    IF report.kind = "elbicare"
    THEN \E N \in DOMAIN elbi_data.ch_0 \cap DOMAIN elbi_data.ch_1 : SlotFreq(N) = f
    ELSE GridIndex(f) \in DOMAIN pyco_data.ch_0 \cap DOMAIN pyco_data.ch_1

\* C8: in every report of either path the frequency list and the two
\* threshold lists have the same length, the frequency list is strictly
\* ascending and holds only canonical frequencies that have data, and an
\* amplitude-code report never holds 125 Hz.
C8_SeriesAligned ==
    Reported =>
        /\ Len(report.freq_list) = Len(report.dbL)
        /\ Len(report.freq_list) = Len(report.dbR)
        /\ StrictlyAscending(report.freq_list)
        /\ \A f \in Range(report.freq_list) : f \in Range(CanonicalGrid) /\ HasData(f)
        /\ report.kind = "elbicare" => 125 \notin Range(report.freq_list)

\* C8 witness: a turning-point report with gaps, 250 and 1000 Hz alone
C8_Witness ==
    /\ report.kind = "pychoacoustics"
    /\ report.freq_list = <<250, 1000>>
    /\ Len(report.dbL) = 2 /\ Len(report.dbR) = 2

RequiredCalibKeys ==
    {"audio_unit", "headphone", "author", "tanggal",
     "250Hz", "500Hz", "1000Hz", "2000Hz", "4000Hz", "8000Hz"}

\* C9: whenever the calibration document lacks a required key, the request
\* fails before any conversion is made or report produced, whichever slots
\* the input document holds.
C9_MalformedCalibrationRejected ==
    (request = "elbicare" /\ calib_on_disk.exists
       /\ ~(RequiredCalibKeys \subseteq DOMAIN calib_on_disk.content)) =>
        /\ exception # "none"
        /\ lookups = 0
        /\ report.kind = "none"

\* C10: when the calibration file does not exist, the amplitude-code request
\* ends with the not-found message naming the calibration path; no file is
\* opened (the input document is not read, the load is not tried again), no
\* conversion is made and no report produced.
C10_MissingCalibrationEndsRequest ==
    (request = "elbicare" /\ ~calib_on_disk.exists) =>
        /\ dialog.title = "Calibration Error"
        /\ calib_file \in Range(dialog.text)
        /\ opened = << >>
        /\ elbi_data = EmptyAudiogram
        /\ calib_data = EmptyDict
        /\ lookups = 0
        /\ exception = "none"
        /\ report.kind = "none"

\* C10 witness: such a request has run on a document that holds slots
C10_Witness ==
    /\ request = "elbicare"
    /\ ~calib_on_disk.exists
    /\ DOMAIN in_file.audiogram.ch_0 = 0..5
    /\ dialog.text[2] = calib_file

====
